---- MODULE Spec2Model ----
(***************************************************************************)
(* State-machine model of the test harness of the RISC-V simulator:        *)
(*   - run_tests.py: TestRunner (pattern resolution, thread-pool           *)
(*     execution, classification of one run, aggregation, summary, exit);  *)
(*   - tools/benchmarks/run_perf_suite.py: manifest resolution, sequential *)
(*     execution of targets x modes, classification, exit code.            *)
(* The simulator is seen only through its process boundary: what           *)
(* subprocess.run returns or raises.                                       *)
(*                                                                         *)
(* Text is a sequence of chunks [k, v, d]: k names what the chunk holds    *)
(* (a marker, a labelled counter, a newline, anything else), v/d is the    *)
(* number a labelled counter chunk prints.  Optional values (None or a     *)
(* value) are sequences of length 0 or 1.  Wall-clock time is counted in   *)
(* whole ticks.                                                            *)
(***************************************************************************)
EXTENDS Integers, Sequences, FiniteSets, TLC

VARIABLES
  prog,             \* which program this behaviour runs: "driver", "tests", "perf",
                    \* "stats", "find", "cmd"
  \* ---- one call of parse_stats
  stats_in,         \* the text given to parse_stats
  stats_out,        \* what parse_stats returned (<<>>: not called yet)
  \* ---- one call of find_test_files
  find_in,          \* what glob.glob(pattern) lists, in the order it lists it
  find_out,         \* what find_test_files returned (<<>>: not called yet)
  \* ---- the command line of one simulator invocation
  cmd_args,         \* the arguments of run_single_test / run_one that cmd is made of
  cmd,              \* cmd as given to subprocess.run (<<>>: not built yet)
  \* ---- one driver call (run_single_test / run_one) on one process outcome
  proc,             \* what subprocess.run does for the call
  dcfg,             \* the call's arguments (timeout, ooo/mode, allow_implicit_pass)
  drv,              \* what the driver call gave: nothing yet, a result, an exception
  \* ---- run_tests.py
  pc,               \* position of the main thread
  targs,            \* command line of run_tests.py
  test_files,       \* find_test_files' result
  max_workers,      \* the pool's size
  submitted,        \* number of test files submitted to the executor so far
  queue,            \* the executor's work queue (units not yet taken by a worker)
  worker,           \* worker -> the unit it runs (0: idle)
  fut,              \* unit -> its future: state and result
  yielded,          \* units as_completed has handed to the loop
  cur,              \* the unit of the current loop iteration
  results,          \* self.results
  lock,             \* self.lock: the thread that holds it ("none": free)
  uproc,            \* per unit: what its simulator subprocess did, once it ended
  completed_count,  \* completed_count
  progress,         \* the completed-counts printed, in order
  spawns,           \* unit -> number of simulator subprocesses started for it
  summary_printed,  \* print_summary ran
  exit_code,        \* the process exit code (<<>>: still running)
  \* ---- run_perf_suite.py
  ppc,              \* position of main
  pargs,            \* command line of run_perf_suite.py
  manifest,         \* the manifest document read
  targets,          \* targets (after load_manifest and --filter)
  runnable_targets, \* runnable_targets
  missing_required, \* missing_required
  modes,            \* modes
  mi,               \* index of the current mode in modes
  ti,               \* index of the current target in runnable_targets
  records,          \* records
  pspawns,          \* the (mode, target index) of every subprocess started
  psummary,         \* print_summary ran
  pexit             \* main's return value / exit code (<<>>: still running)

statsVars == <<stats_in, stats_out>>
findVars  == <<find_in, find_out>>
cmdVars   == <<cmd_args, cmd>>
drvVars   == <<proc, dcfg, drv>>
testsVars == <<pc, targs, test_files, max_workers, submitted, queue, worker, fut,
               yielded, cur, results, lock, uproc, completed_count, progress,
               spawns, summary_printed, exit_code>>
perfVars  == <<ppc, pargs, manifest, targets, runnable_targets, missing_required,
               modes, mi, ti, records, pspawns, psummary, pexit>>
vars      == <<prog, statsVars, findVars, cmdVars, drvVars, testsVars, perfVars>>

(***************************************************************************)
(* Bounds of the model.                                                    *)
(***************************************************************************)
MaxStdout == 2      \* chunks of stdout in a driver call
MaxStderr == 1      \* chunks of stderr in a driver call
Timeouts == {1, 2}   \* the configured timeout, in ticks
KillDelays == {0, 1} \* ticks between the timeout expiring and subprocess.run raising

None == <<>>
Some(x) == <<x>>

RECURSIVE GCD(_, _)
GCD(a, b) == IF b = 0 THEN a ELSE GCD(b, a % b)

\* A Python float that is the quotient n / d, kept as a reduced fraction.
Quot(n, d) == LET g == GCD(n, d) IN [n |-> n \div g, d |-> d \div g]

(***************************************************************************)
(* Text.                                                                   *)
(***************************************************************************)
Chunk(k, v, d) == [k |-> k, v |-> v, d |-> d]
PASS_MARKER == Chunk("=== TEST RESULT: PASS ===", 0, 1)
FAIL_MARKER == Chunk("=== TEST RESULT: FAIL ===", 0, 1)
PROGRAM_FINISHED_MARKER == Chunk("Program finished", 0, 1)
PROGRAM_HALTED_MARKER == Chunk("Program State: halted", 0, 1)
NEWLINE == Chunk("\n", 0, 1)
OTHER_TEXT == Chunk("...", 0, 1)

\* marker in text
Contains(text, marker) == \E i \in 1..Len(text) : text[i] = marker

(***************************************************************************)
(* run_perf_suite.py: performance counters.                                *)
(***************************************************************************)
RE_INSTRUCTIONS == {"Instructions:"}
RE_CYCLES == {"Cycles:"}
RE_IPC == {"IPC:"}
RE_BRANCH_MISPREDICTS == {"branch_mispredicts:", "Branch Mispredicts:"}
RE_PIPELINE_STALLS == {"pipeline_stalls:", "Pipeline Stalls:"}

\* pattern.findall(text): the chunks of text the pattern matches, in text order
findall(pattern, text) == SelectSeq(text, LAMBDA c : c.k \in pattern)

\* extract_last_int giving 0 for a label that does not occur
extract_last_int_or_zero(pattern, text) ==
  LET matches == findall(pattern, text)
  IN  IF matches = <<>> THEN Some(0) ELSE Some(matches[Len(matches)].v)

\* extract_last_int taking the first match
extract_first_int(pattern, text) ==
  LET matches == findall(pattern, text)
  IN  IF matches = <<>> THEN None ELSE Some(matches[1].v)

extract_last_int(pattern, text) ==
  LET matches == findall(pattern, text)
  IN  IF matches = <<>> THEN None ELSE Some(matches[Len(matches)].v)

extract_last_float(pattern, text) ==
  LET matches == findall(pattern, text)
  IN  IF matches = <<>> THEN None
      ELSE Some(Quot(matches[Len(matches)].v, matches[Len(matches)].d))

\* parse_stats computing IPC from the counts whenever both are there
parse_stats_always_derives(output) ==
  LET instructions == extract_last_int(RE_INSTRUCTIONS, output)
      cycles == extract_last_int(RE_CYCLES, output)
      ipc == extract_last_float(RE_IPC, output)
      branch_mispredicts == extract_last_int(RE_BRANCH_MISPREDICTS, output)
      pipeline_stalls == extract_last_int(RE_PIPELINE_STALLS, output)
  IN  [instructions |-> instructions,
       cycles |-> cycles,
       ipc |-> IF instructions # None /\ cycles # None /\ cycles[1] > 0
               THEN Some(Quot(instructions[1], cycles[1]))
               ELSE ipc,
       branch_mispredicts |-> branch_mispredicts,
       pipeline_stalls |-> pipeline_stalls]

parse_stats(output) ==
  LET instructions == extract_last_int(RE_INSTRUCTIONS, output)
      cycles == extract_last_int(RE_CYCLES, output)
      ipc == extract_last_float(RE_IPC, output)
      branch_mispredicts == extract_last_int(RE_BRANCH_MISPREDICTS, output)
      pipeline_stalls == extract_last_int(RE_PIPELINE_STALLS, output)
  IN  [instructions |-> instructions,
       cycles |-> cycles,
       ipc |-> IF ipc = None /\ instructions # None /\ cycles # None /\ cycles[1] > 0
               THEN Some(Quot(instructions[1], cycles[1]))
               ELSE ipc,
       branch_mispredicts |-> branch_mispredicts,
       pipeline_stalls |-> pipeline_stalls]

(***************************************************************************)
(* What subprocess.run does for one call: the child exits within the       *)
(* timeout ("exit": stdout, stderr, return code, wall ticks taken), the    *)
(* timeout expires ("timeout": subprocess.run kills the child and raises   *)
(* TimeoutExpired, wall ticks after the call began, stdout and stderr   *)
(* what the child wrote before it was killed), or the child cannot         *)
(* be started ("oserror": an OSError such as FileNotFoundError or          *)
(* PermissionError, with its text).                                        *)
(***************************************************************************)
Exited(out, err, rc, wall) ==
  [kind |-> "exit", stdout |-> out, stderr |-> err, returncode |-> rc,
   wall |-> wall, exc |-> ""]
TimedOut(out, err, wall) ==
  [kind |-> "timeout", stdout |-> out, stderr |-> err, returncode |-> 0,
   wall |-> wall, exc |-> ""]
SpawnFailed(text) ==
  [kind |-> "oserror", stdout |-> <<>>, stderr |-> <<>>, returncode |-> 0,
   wall |-> 0, exc |-> text]

(***************************************************************************)
(* run_tests.py: TestRunner.run_single_test.                               *)
(***************************************************************************)
basename(path) == path[Len(path)]

Output(note, num, exc, out, err) ==
  [note |-> note, num |-> num, exc |-> exc, stdout |-> out, stderr |-> err]
NoOutput == Output("", 0, "", <<>>, <<>>)

TestResult(status, output, returncode, elapsed, test_name) ==
  [status |-> status, output |-> output, returncode |-> returncode,
   elapsed |-> elapsed, test_name |-> test_name]

\* The if/elif chain over the completed process (lines 98-117).
ClassifyTest(p, allow_implicit_pass, test_name) ==
  IF Contains(p.stdout, PASS_MARKER)
  THEN TestResult("passed", NoOutput, p.returncode, p.wall, test_name)
  ELSE IF Contains(p.stdout, FAIL_MARKER)
  THEN TestResult("failed", Output("STDOUT/STDERR", 0, "", p.stdout, p.stderr),
                  p.returncode, p.wall, test_name)
  ELSE IF p.returncode # 0
  THEN TestResult("error",
                  Output("Non-zero return code", p.returncode, "", p.stdout, p.stderr),
                  p.returncode, p.wall, test_name)
  ELSE IF /\ allow_implicit_pass
          /\ p.returncode = 0
          /\ Contains(p.stdout, PROGRAM_FINISHED_MARKER)
          /\ Contains(p.stdout, PROGRAM_HALTED_MARKER)
  THEN TestResult("passed", NoOutput, p.returncode, p.wall, test_name)
  ELSE TestResult("error", Output("Unknown result", 0, "", p.stdout, p.stderr),
                  p.returncode, p.wall, test_name)

\* run_single_test never raises an Exception: both except clauses return.
run_single_test(test_file, timeout, allow_implicit_pass, p) ==
  LET test_name == basename(test_file)
  IN  CASE p.kind = "exit" -> ClassifyTest(p, allow_implicit_pass, test_name)
        [] p.kind = "timeout" ->
             TestResult("timeout", Output("Test timeout", timeout, "", <<>>, <<>>),
                        -1, timeout, test_name)
        [] OTHER ->
             TestResult("error", Output("Execution error", 0, p.exc, <<>>, <<>>),
                        -1, 0, test_name)

(***************************************************************************)
(* run_perf_suite.py: run_one.                                             *)
(***************************************************************************)
Target(suite, name, path, optional) ==
  [suite |-> suite, name |-> name, path |-> path, optional |-> optional]

RunRecord(target, mode, status, return_code, elapsed_sec, stats) ==
  [suite |-> target.suite, benchmark |-> target.name, file |-> target.path,
   mode |-> mode, status |-> status, return_code |-> return_code,
   elapsed_sec |-> elapsed_sec,
   instructions |-> stats.instructions, cycles |-> stats.cycles, ipc |-> stats.ipc,
   branch_mispredicts |-> stats.branch_mispredicts,
   pipeline_stalls |-> stats.pipeline_stalls]

NoStats ==
  [instructions |-> None, cycles |-> None, ipc |-> None,
   branch_mispredicts |-> None, pipeline_stalls |-> None]

\* merged_output = proc.stdout; if proc.stderr: merged_output += "\n" + proc.stderr
merged_output(p) ==
  IF p.stderr # <<>> THEN p.stdout \o <<NEWLINE>> \o p.stderr ELSE p.stdout

\* PerfStatus taking return code 0 without a FAIL marker for a pass
PerfStatusWithoutPassMarker(p) ==
  LET has_fail_marker == Contains(merged_output(p), FAIL_MARKER)
  IN  IF p.returncode = 0 /\ ~has_fail_marker THEN "passed" ELSE "failed"

PerfStatus(p) ==
  LET has_pass_marker == Contains(merged_output(p), PASS_MARKER)
      has_fail_marker == Contains(merged_output(p), FAIL_MARKER)
  IN  IF p.returncode = 0 /\ has_pass_marker /\ ~has_fail_marker
      THEN "passed" ELSE "failed"

\* run_one returns a RunRecord, or raises what subprocess.run raises other than
\* TimeoutExpired (the only exception it catches).
Return(v) == [kind |-> "return", val |-> v]
Raise(text) == [kind |-> "raise", val |-> text]

\* run_one with the timeout branch keeping the counters of the partial output
run_one_keeps_partial_stats(target, mode, p) ==
  CASE p.kind = "exit" ->
         Return(RunRecord(target, mode, PerfStatus(p), p.returncode, p.wall,
                          parse_stats(merged_output(p))))
    [] p.kind = "timeout" ->
         Return(RunRecord(target, mode, "timeout", -1, p.wall,
                          parse_stats(merged_output(p))))
    [] OTHER -> Raise(p.exc)

run_one(target, mode, p) ==
  CASE p.kind = "exit" ->
         Return(RunRecord(target, mode, PerfStatus(p), p.returncode, p.wall,
                          parse_stats(merged_output(p))))
    [] p.kind = "timeout" ->
         Return(RunRecord(target, mode, "timeout", -1, p.wall, NoStats))
    [] OTHER -> Raise(p.exc)

(***************************************************************************)
(* One driver call on one process outcome (prog = "driver"): the outcome   *)
(* and the arguments are drawn at the start, then either driver is applied.*)
(***************************************************************************)
RECURSIVE SeqsUpTo(_, _)
SeqsUpTo(S, n) ==
  IF n = 0 THEN {<<>>}
  ELSE LET shorter == SeqsUpTo(S, n - 1)
       IN  shorter \cup {Append(q, x) : q \in shorter, x \in S}

DriverChunks ==
  {PASS_MARKER, FAIL_MARKER, PROGRAM_FINISHED_MARKER, PROGRAM_HALTED_MARKER,
   OTHER_TEXT, Chunk("Instructions:", 4, 1), Chunk("Cycles:", 2, 1)}
ReturnCodes == {0, 1}
SpawnErrors == {"FileNotFoundError", "PermissionError"}

ProcOutcomes(timeout) ==
  {Exited(out, err, rc, wall) :
     out \in SeqsUpTo(DriverChunks, MaxStdout), err \in SeqsUpTo(DriverChunks, MaxStderr),
     rc \in ReturnCodes, wall \in 0..timeout}
  \cup {TimedOut(out, <<>>, wall) :
     out \in SeqsUpTo(DriverChunks, MaxStderr), wall \in {timeout + d : d \in KillDelays}}
  \cup {SpawnFailed(text) : text \in SpawnErrors}

DriverTarget == Target("suite", "bench", <<"benchmarks", "bench.riscv">>, FALSE)
DriverFile == <<"isa", "rv32ui-p-add">>

NotCalled == [by |-> "none", kind |-> "none", val |-> <<>>]

\* The other two programs do not run in this behaviour.
TestsIdle ==
  /\ pc = "idle" /\ targs = <<>> /\ test_files = <<>> /\ max_workers = 0
  /\ submitted = 0 /\ queue = <<>> /\ worker = <<>> /\ fut = <<>> /\ yielded = {}
  /\ cur = 0 /\ results = <<>> /\ lock = "none" /\ uproc = <<>>
  /\ completed_count = 0
  /\ progress = <<>>
  /\ spawns = <<>> /\ summary_printed = FALSE /\ exit_code = None
PerfIdle ==
  /\ ppc = "idle" /\ pargs = <<>> /\ manifest = <<>> /\ targets = <<>>
  /\ runnable_targets = <<>> /\ missing_required = 0 /\ modes = <<>>
  /\ mi = 0 /\ ti = 0 /\ records = <<>> /\ pspawns = <<>> /\ psummary = FALSE
  /\ pexit = None
DriverIdle == proc = <<>> /\ dcfg = <<>> /\ drv = NotCalled
StatsIdle == stats_in = <<>> /\ stats_out = None
FindIdle == find_in = <<>> /\ find_out = None
CmdIdle == cmd_args = <<>> /\ cmd = <<>>

DriverInit ==
  /\ prog = "driver"
  /\ \E timeout \in Timeouts, allow \in BOOLEAN :
       /\ dcfg = [timeout |-> timeout, allow_implicit_pass |-> allow, mode |-> "in-order"]
       /\ proc \in ProcOutcomes(timeout)
  /\ drv = NotCalled
  /\ TestsIdle /\ PerfIdle /\ StatsIdle /\ FindIdle /\ CmdIdle

CallRunSingleTest ==
  /\ prog = "driver" /\ drv.by = "none"
  /\ drv' = [by |-> "tests", kind |-> "return",
             val |-> run_single_test(DriverFile, dcfg.timeout,
                                     dcfg.allow_implicit_pass, proc)]
  /\ UNCHANGED <<prog, proc, dcfg, statsVars, findVars, cmdVars, testsVars, perfVars>>

CallRunOne ==
  /\ prog = "driver" /\ drv.by = "none"
  /\ drv' = [by |-> "perf"] @@ run_one(DriverTarget, dcfg.mode, proc)
  /\ UNCHANGED <<prog, proc, dcfg, statsVars, findVars, cmdVars, testsVars, perfVars>>

DriverNext == CallRunSingleTest \/ CallRunOne
DriverSpec == DriverInit /\ [][DriverNext]_vars

(***************************************************************************)
(* Claims about one driver call (checked under DriverSpec).                *)
(***************************************************************************)
\* The captured output of a completed run: stdout, then stderr.
CapturedOutput(p) == p.stdout \o p.stderr
Completed == drv.by # "none" /\ proc.kind = "exit"
Classified(status) == drv.kind = "return" /\ drv.val.status = status

\* C3: a completed run whose output contains the FAIL marker is classified
\* failed, whatever the return code and also when the PASS marker is there
\* too.  Stated for a FAIL marker on stdout, the stream both runners read.
C3_FailMarkerFailed ==
  (Completed /\ Contains(proc.stdout, FAIL_MARKER)) => Classified("failed")

\* C4: a completed run whose captured output contains the PASS marker and no
\* FAIL marker, and whose return code is 0, is classified passed.
C4_PassMarkerPassed ==
  (/\ Completed
   /\ Contains(CapturedOutput(proc), PASS_MARKER)
   /\ ~Contains(CapturedOutput(proc), FAIL_MARKER)
   /\ proc.returncode = 0) => Classified("passed")

\* C5: a completed run whose output contains the PASS marker and no FAIL
\* marker, but whose return code is nonzero, is classified error (so the
\* PASS marker gives passed only together with return code 0).  Stated for a
\* PASS marker on stdout, the stream both runners read.
C5_PassMarkerNonzeroError ==
  (/\ Completed
   /\ Contains(proc.stdout, PASS_MARKER)
   /\ ~Contains(CapturedOutput(proc), FAIL_MARKER)
   /\ proc.returncode # 0) => Classified("error")

CountersAbsent(rec) ==
  /\ rec.instructions = None /\ rec.cycles = None /\ rec.ipc = None
  /\ rec.branch_mispredicts = None /\ rec.pipeline_stalls = None
TimeoutNote(timeout) == Output("Test timeout", timeout, "", <<>>, <<>>)
TimedOutCall == drv.by # "none" /\ proc.kind = "timeout"

\* C6 as stated: a call whose invocation exceeds the timeout gives status
\* timeout, return code -1, elapsed equal to the configured timeout, and no
\* captured output but the timeout note (all counters absent).
C6_TimeoutElapsedIsTimeout ==
  TimedOutCall =>
    /\ Classified("timeout")
    /\ drv.by = "tests" =>
         /\ drv.val.returncode = -1 /\ drv.val.elapsed = dcfg.timeout
         /\ drv.val.output = TimeoutNote(dcfg.timeout)
    /\ drv.by = "perf" =>
         /\ drv.val.return_code = -1 /\ drv.val.elapsed_sec = dcfg.timeout
         /\ CountersAbsent(drv.val)

\* C6 amended: status timeout, return code -1, no captured output but the
\* timeout note (all counters absent), and elapsed at least the configured
\* timeout: exactly the timeout in the test runner, the wall-clock time the
\* call took in the benchmark runner.
C6_TimeoutClassified ==
  TimedOutCall =>
    /\ Classified("timeout")
    /\ drv.by = "tests" =>
         /\ drv.val.returncode = -1 /\ drv.val.elapsed = dcfg.timeout
         /\ drv.val.output = TimeoutNote(dcfg.timeout)
    /\ drv.by = "perf" =>
         /\ drv.val.return_code = -1
         /\ drv.val.elapsed_sec = proc.wall /\ drv.val.elapsed_sec >= dcfg.timeout
         /\ CountersAbsent(drv.val)

\* The benchmark runner timed out late, on a child that had printed a counter.
C6_Witness ==
  /\ TimedOutCall /\ drv.by = "perf" /\ Classified("timeout")
  /\ proc.wall > dcfg.timeout
  /\ Contains(proc.stdout, Chunk("Instructions:", 4, 1))

\* C7: when the simulator cannot be started, the driver returns a result with
\* status error, return code -1 and the exception text in the captured
\* output; the exception does not leave the driver.
C7_SpawnFailureIsErrorResult ==
  (drv.by # "none" /\ proc.kind = "oserror") =>
    /\ Classified("error")
    /\ drv.by = "tests" =>
         /\ drv.val.returncode = -1 /\ drv.val.output.exc = proc.exc
    /\ drv.by = "perf" => drv.val.return_code = -1

(***************************************************************************)
(* run_tests.py (prog = "tests"): main, TestRunner.run_test_suite on a     *)
(* ThreadPoolExecutor, print_summary, exit code.  A unit is an index of    *)
(* test_files.                                                             *)
(***************************************************************************)
MaxFiles == 2       \* executable test binaries the pattern can match
MaxWorkers == 2     \* the largest --workers value
MaxCpu == 2         \* the largest os.cpu_count()

\* The characters of the file names, in the order of their code points:
\* sorted() compares str values code point by code point.
CodePoints == <<"-", ".", "X", "a", "b", "d", "m", "n", "o", "p", "r", "s", "u", "x">>
Ord(c) == CHOOSE i \in 1..Len(CodePoints) : CodePoints[i] = c

\* a < b for two str values
RECURSIVE LexLess(_, _)
LexLess(a, b) ==
  IF a = <<>> THEN b # <<>>
  ELSE IF b = <<>> THEN FALSE
  ELSE IF Head(a) = Head(b) THEN LexLess(Tail(a), Tail(b))
  ELSE Ord(Head(a)) < Ord(Head(b))

\* s.endswith(suffix)
EndsWith(s, suffix) ==
  /\ Len(s) >= Len(suffix)
  /\ SubSeq(s, Len(s) - Len(suffix) + 1, Len(s)) = suffix

DUMP_SUFFIX == <<".", "d", "u", "m", "p">>

\* File names (sequences of characters) of test binaries, in sorted order.
FileNames == << <<"a", "d", "d">>, <<"a", "n", "d">>, <<"o", "r">>,
                <<"s", "u", "b">>, <<"x", "o", "r">> >>
\* Other names the pattern can match: a disassembly, a name that only
\* contains the suffix, one shorter than the suffix, one in upper case.
OtherNames == { <<"a", "d", "d">> \o DUMP_SUFFIX,
                <<"a", "d", "d">> \o DUMP_SUFFIX \o <<"s">>,
                <<"d", "u", "m", "p">>,
                <<"X", "o", "r">> }
TestsDir == "riscv-tests/isa"

\* A path glob.glob(pattern) lists, with what os.access(path, os.X_OK) says.
DirEntry(name, executable) == [name |-> name, executable |-> executable]

\* The orders in which the members of S can be listed.
Listings(S) ==
  {l \in [1..Cardinality(S) -> S] : \A i, j \in 1..Cardinality(S) : l[i] = l[j] => i = j}

\* What glob.glob lists in a run of the suite: up to MaxFiles executable test
\* binaries, maybe a disassembly and a file without execute permission, in
\* any order.
TestDirectories ==
  UNION {Listings({DirEntry(FileNames[r], TRUE) : r \in 1..n} \cup extra) :
           <<n, extra>> \in (0..MaxFiles) \X
             SUBSET {DirEntry(FileNames[1] \o DUMP_SUFFIX, TRUE),
                     DirEntry(FileNames[Len(FileNames)], FALSE)}}

\* os.path.join(tests_dir, name)
PathOf(entry) == <<TestsDir, entry.name>>

\* Two paths in the same directory compare as their names do.
PathLess(p, q) == LexLess(p[Len(p)], q[Len(q)])

\* sorted(files): here by insertion, one path after the other
RECURSIVE Insert(_, _)
Insert(path, sorted_paths) ==
  IF sorted_paths = <<>> THEN <<path>>
  ELSE IF PathLess(path, Head(sorted_paths)) THEN <<path>> \o sorted_paths
  ELSE <<Head(sorted_paths)>> \o Insert(path, Tail(sorted_paths))

RECURSIVE sorted(_)
sorted(files) ==
  IF files = <<>> THEN <<>> ELSE Insert(Head(files), sorted(Tail(files)))

\* find_test_files returning the kept paths in the order of the glob
find_test_files_unsorted(glob_result) ==
  LET kept == SelectSeq(glob_result,
                        LAMBDA e : ~EndsWith(PathOf(e)[2], DUMP_SUFFIX) /\ e.executable)
  IN  [i \in 1..Len(kept) |-> PathOf(kept[i])]

\* find_test_files: the matches that do not end in .dump and are executable, sorted
find_test_files(glob_result) ==
  LET kept == SelectSeq(glob_result,
                        LAMBDA e : ~EndsWith(PathOf(e)[2], DUMP_SUFFIX) /\ e.executable)
  IN  sorted([i \in 1..Len(kept) |-> PathOf(kept[i])])

\* if max_workers <= 0: max_workers = min(len(test_files), os.cpu_count() or 4)
\* os.cpu_count() is None (here 0) when the number of CPUs is not known.
Min(a, b) == IF a <= b THEN a ELSE b
cpu_count_or_4(cpu_count) == IF cpu_count = 0 THEN 4 ELSE cpu_count

\* PoolSize without the cap by the number of test files
PoolSizeUncapped(workers_arg, n_files, cpu_count) ==
  IF workers_arg <= 0 THEN cpu_count_or_4(cpu_count) ELSE workers_arg

PoolSize(workers_arg, n_files, cpu_count) ==
  IF workers_arg <= 0 THEN Min(n_files, cpu_count_or_4(cpu_count)) ELSE workers_arg

\* What the simulator may do in a run of the suite.
SuiteOutcomes(timeout) ==
  {Exited(<<PASS_MARKER>>, <<>>, 0, 0),
   Exited(<<OTHER_TEXT, FAIL_MARKER>>, <<>>, 1, 0),
   TimedOut(<<>>, <<>>, timeout),
   SpawnFailed("PermissionError")}

EmptyResults == [passed |-> <<>>, failed |-> <<>>, timeout |-> <<>>, error |-> <<>>]
Statuses == {"passed", "failed", "timeout", "error"}

Pending == [state |-> "pending", result |-> <<>>]
Running == [state |-> "running", result |-> <<>>]
Finished(r) == [state |-> "finished", result |-> r]

Units == 1..Len(test_files)
Workers == 1..max_workers

TestsInit ==
  /\ prog = "tests"
  /\ pc = "main"
  /\ targs \in [paths_exist : BOOLEAN, workers : 0..MaxWorkers, cpu_count : 0..MaxCpu,
                timeout : {1}, ooo : {FALSE}, allow_implicit_pass : {FALSE}]
  /\ test_files = <<>> /\ max_workers = 0 /\ submitted = 0 /\ queue = <<>>
  /\ worker = <<>> /\ fut = <<>> /\ yielded = {} /\ cur = 0
  /\ results = EmptyResults /\ lock = "none" /\ uproc = <<>>
  /\ completed_count = 0
  /\ progress = <<>>
  /\ spawns = <<>> /\ summary_printed = FALSE /\ exit_code = None
  /\ DriverIdle /\ PerfIdle /\ StatsIdle /\ FindIdle /\ CmdIdle

mainFrame == <<prog, targs, statsVars, findVars, cmdVars, drvVars, perfVars>>

\* main, lines 352-367: a missing simulator or tests directory exits with 1.
MainPathsMissing ==
  /\ prog = "tests" /\ pc = "main" /\ ~targs.paths_exist
  /\ pc' = "exited" /\ exit_code' = Some(1)
  /\ UNCHANGED <<mainFrame, uproc, lock, test_files, max_workers, submitted, queue, worker, fut,
                 yielded, cur, results, completed_count, progress, spawns,
                 summary_printed>>

\* run_test_suite, lines 126-148: resolve the files and size the pool.
FindTestFiles ==
  /\ prog = "tests" /\ pc = "main" /\ targs.paths_exist
  /\ \E directory \in TestDirectories :
       LET files == find_test_files(directory)
           n == Len(files)
       IN  /\ test_files' = files
           /\ IF n = 0
              THEN /\ pc' = "summary"
                   /\ UNCHANGED <<max_workers, worker, fut, spawns, uproc>>
              ELSE /\ pc' = "submit"
                   /\ max_workers' = PoolSize(targs.workers, n, targs.cpu_count)
                   /\ worker' = [w \in 1..max_workers' |-> 0]
                   /\ fut' = [u \in 1..n |-> Pending]
                   /\ spawns' = [u \in 1..n |-> 0]
                   /\ uproc' = [u \in 1..n |-> None]
  /\ UNCHANGED <<mainFrame, lock, submitted, queue, yielded, cur, results, completed_count,
                 progress, summary_printed, exit_code>>

\* executor.submit(self.run_single_test, test_file, timeout, ooo), in list order
Submit ==
  /\ prog = "tests" /\ pc = "submit"
  /\ IF submitted < Len(test_files)
     THEN /\ submitted' = submitted + 1
          /\ queue' = Append(queue, submitted + 1)
          /\ pc' = pc
     ELSE /\ pc' = "collect"
          /\ UNCHANGED <<submitted, queue>>
  /\ UNCHANGED <<mainFrame, uproc, lock, test_files, max_workers, worker, fut, yielded, cur,
                 results, completed_count, progress, spawns, summary_printed,
                 exit_code>>

\* WorkerStart where an idle worker may also run again a unit that ended
\* otherwise than passed
WorkerStartRetries(w) ==
  /\ prog = "tests" /\ w \in Workers /\ worker[w] = 0
  /\ \/ /\ queue # <<>>
        /\ worker' = [worker EXCEPT ![w] = Head(queue)]
        /\ queue' = Tail(queue)
        /\ fut' = [fut EXCEPT ![Head(queue)] = Running]
        /\ spawns' = [spawns EXCEPT ![Head(queue)] = @ + 1]
        /\ UNCHANGED uproc
     \/ \E u \in Units \ yielded :
          /\ fut[u].state = "finished" /\ fut[u].result.status # "passed"
          /\ spawns[u] = 1
          /\ worker' = [worker EXCEPT ![w] = u]
          /\ fut' = [fut EXCEPT ![u] = Running]
          /\ uproc' = [uproc EXCEPT ![u] = None]
          /\ spawns' = [spawns EXCEPT ![u] = @ + 1]
          /\ UNCHANGED queue
  /\ UNCHANGED <<mainFrame, lock, pc, test_files, max_workers, submitted, yielded, cur,
                 results, completed_count, progress, summary_printed, exit_code>>

\* An idle worker takes the oldest queued unit and starts the simulator.
WorkerStart(w) ==
  /\ prog = "tests" /\ w \in Workers /\ worker[w] = 0 /\ queue # <<>>
  /\ worker' = [worker EXCEPT ![w] = Head(queue)]
  /\ queue' = Tail(queue)
  /\ fut' = [fut EXCEPT ![Head(queue)] = Running]
  /\ spawns' = [spawns EXCEPT ![Head(queue)] = @ + 1]
  /\ UNCHANGED <<mainFrame, uproc, lock, pc, test_files, max_workers, submitted, yielded, cur,
                 results, completed_count, progress, summary_printed, exit_code>>

\* WorkerFinish where a timeout also ends the units still waiting in the queue
WorkerFinishCancelsQueued(w) ==
  /\ prog = "tests" /\ w \in Workers /\ worker[w] # 0
  /\ \E p \in SuiteOutcomes(targs.timeout) :
       LET r == run_single_test(test_files[worker[w]], targs.timeout,
                                targs.allow_implicit_pass, p)
           cancelled == IF p.kind = "timeout"
                        THEN {queue[i] : i \in 1..Len(queue)} ELSE {}
       IN  /\ fut' = [u \in Units |->
                        IF u = worker[w] THEN Finished(r)
                        ELSE IF u \in cancelled
                        THEN Finished(run_single_test(test_files[u], targs.timeout,
                                                      targs.allow_implicit_pass, p))
                        ELSE fut[u]]
           /\ uproc' = [uproc EXCEPT ![worker[w]] = Some(p)]
           /\ queue' = IF p.kind = "timeout" THEN <<>> ELSE queue
  /\ worker' = [worker EXCEPT ![w] = 0]
  /\ UNCHANGED <<mainFrame, lock, pc, test_files, max_workers, submitted, yielded,
                 cur, results, completed_count, progress, spawns, summary_printed,
                 exit_code>>

\* subprocess.run ends one way or another (on a timeout it kills its own child
\* and raises TimeoutExpired); run_single_test returns its tuple.
WorkerFinish(w) ==
  /\ prog = "tests" /\ w \in Workers /\ worker[w] # 0
  /\ \E p \in SuiteOutcomes(targs.timeout) :
       /\ fut' = [fut EXCEPT ![worker[w]] =
                    Finished(run_single_test(test_files[worker[w]], targs.timeout,
                                             targs.allow_implicit_pass, p))]
       /\ uproc' = [uproc EXCEPT ![worker[w]] = Some(p)]
  /\ worker' = [worker EXCEPT ![w] = 0]
  /\ UNCHANGED <<mainFrame, lock, pc, test_files, max_workers, submitted, queue, yielded,
                 cur, results, completed_count, progress, spawns, summary_printed,
                 exit_code>>

Entry(name, file, output, returncode) ==
  [name |-> name, file |-> file, output |-> output, returncode |-> returncode]

\* for future in as_completed(future_to_test): the next finished future, or
\* the end of the loop and of the with block once every future was handed out.
Collect ==
  /\ prog = "tests" /\ pc = "collect"
  /\ \/ \E u \in Units :
          /\ u \notin yielded /\ fut[u].state = "finished"
          /\ yielded' = yielded \cup {u}
          /\ cur' = u
          /\ pc' = "append"
     \/ /\ yielded = Units
        /\ pc' = "summary"
        /\ UNCHANGED <<yielded, cur>>
  /\ UNCHANGED <<mainFrame, uproc, lock, test_files, max_workers, submitted, queue, worker, fut,
                 results, completed_count, progress, spawns, summary_printed,
                 exit_code>>

\* LockAcquire entering the block without taking the lock
LockAcquireSkipped ==
  /\ prog = "tests" /\ pc = "append"
  /\ pc' = "locked"
  /\ UNCHANGED <<mainFrame, uproc, lock, test_files, max_workers, submitted, queue, worker,
                 fut, yielded, cur, results, completed_count, progress, spawns,
                 summary_printed, exit_code>>

\* Lines 160-163: future.result(), then with self.lock: the lock is taken.
LockAcquire ==
  /\ prog = "tests" /\ pc = "append" /\ lock = "none"
  /\ lock' = "main"
  /\ pc' = "locked"
  /\ UNCHANGED <<mainFrame, uproc, test_files, max_workers, submitted, queue, worker, fut,
                 yielded, cur, results, completed_count, progress, spawns,
                 summary_printed, exit_code>>

\* Lines 164-169: self.results[status].append(...)
AppendResult ==
  /\ prog = "tests" /\ pc = "locked"
  /\ LET r == fut[cur].result
     IN  results' = [results EXCEPT ![r.status] =
                       Append(@, Entry(r.test_name, test_files[cur], r.output,
                                       r.returncode))]
  /\ pc' = "count"
  /\ UNCHANGED <<mainFrame, uproc, lock, test_files, max_workers, submitted, queue, worker,
                 fut, yielded, cur, completed_count, progress, spawns,
                 summary_printed, exit_code>>

\* Line 170: completed_count += 1
CountResult ==
  /\ prog = "tests" /\ pc = "count"
  /\ completed_count' = completed_count + 1
  /\ pc' = "unlock"
  /\ UNCHANGED <<mainFrame, uproc, lock, test_files, max_workers, submitted, queue, worker,
                 fut, yielded, cur, results, progress, spawns, summary_printed,
                 exit_code>>

\* The end of the with block: the lock is released.
LockRelease ==
  /\ prog = "tests" /\ pc = "unlock"
  /\ lock' = "none"
  /\ pc' = "report"
  /\ UNCHANGED <<mainFrame, uproc, test_files, max_workers, submitted, queue, worker, fut,
                 yielded, cur, results, completed_count, progress, spawns,
                 summary_printed, exit_code>>

\* Lines 172-181: the progress line is printed, or printing it raises (print
\* raises UnicodeEncodeError for the status emoji on a stdout that cannot
\* encode it, OSError on a broken stdout) and control goes to the handler.
Report ==
  /\ prog = "tests" /\ pc = "report"
  /\ \/ /\ progress' = Append(progress, completed_count)
        /\ pc' = "collect"
     \/ /\ pc' = "handler"
        /\ UNCHANGED progress
  /\ UNCHANGED <<mainFrame, uproc, lock, test_files, max_workers, submitted, queue, worker, fut,
                 yielded, cur, results, completed_count, spawns, summary_printed,
                 exit_code>>

ThreadException == Output("Thread execution exception", 0, "print", <<>>, <<>>)

\* Lines 183-185: except Exception: with self.lock: the lock is taken.
HandlerLockAcquire ==
  /\ prog = "tests" /\ pc = "handler" /\ lock = "none"
  /\ lock' = "main"
  /\ pc' = "handler_locked"
  /\ UNCHANGED <<mainFrame, uproc, test_files, max_workers, submitted, queue, worker, fut,
                 yielded, cur, results, completed_count, progress, spawns,
                 summary_printed, exit_code>>

\* HandlerAppend taking the unit's earlier entry out of its bucket
HandlerAppendMoves ==
  /\ prog = "tests" /\ pc = "handler_locked"
  /\ results' = [st \in Statuses |->
                   LET kept == SelectSeq(results[st],
                                         LAMBDA e : e.file # test_files[cur])
                   IN  IF st = "error"
                       THEN Append(kept, Entry(basename(test_files[cur]),
                                               test_files[cur], ThreadException, -1))
                       ELSE kept]
  /\ pc' = "handler_count"
  /\ UNCHANGED <<mainFrame, uproc, lock, test_files, max_workers, submitted, queue,
                 worker, fut, yielded, cur, completed_count, progress, spawns,
                 summary_printed, exit_code>>

\* Lines 186-191: self.results['error'].append(...)
HandlerAppend ==
  /\ prog = "tests" /\ pc = "handler_locked"
  /\ results' = [results EXCEPT !.error =
                   Append(@, Entry(basename(test_files[cur]), test_files[cur],
                                   ThreadException, -1))]
  /\ pc' = "handler_count"
  /\ UNCHANGED <<mainFrame, uproc, lock, test_files, max_workers, submitted, queue, worker,
                 fut, yielded, cur, completed_count, progress, spawns,
                 summary_printed, exit_code>>

\* Line 192: completed_count += 1
HandlerCount ==
  /\ prog = "tests" /\ pc = "handler_count"
  /\ completed_count' = completed_count + 1
  /\ pc' = "handler_unlock"
  /\ UNCHANGED <<mainFrame, uproc, lock, test_files, max_workers, submitted, queue, worker,
                 fut, yielded, cur, results, progress, spawns, summary_printed,
                 exit_code>>

\* The end of the with block of the handler: the lock is released.
HandlerLockRelease ==
  /\ prog = "tests" /\ pc = "handler_unlock"
  /\ lock' = "none"
  /\ pc' = "handler_report"
  /\ UNCHANGED <<mainFrame, uproc, test_files, max_workers, submitted, queue, worker, fut,
                 yielded, cur, results, completed_count, progress, spawns,
                 summary_printed, exit_code>>

\* Lines 193-194: the handler's own log line is printed, or raises: then the
\* exception leaves the loop and the with block.
HandlerReport ==
  /\ prog = "tests" /\ pc = "handler_report"
  /\ \/ /\ progress' = Append(progress, completed_count)
        /\ pc' = "collect"
     \/ /\ pc' = "unwind"
        /\ UNCHANGED progress
  /\ UNCHANGED <<mainFrame, uproc, lock, test_files, max_workers, submitted, queue, worker, fut,
                 yielded, cur, results, completed_count, spawns, summary_printed,
                 exit_code>>

\* The with block's exit waits for every submitted unit (shutdown(wait=True)),
\* then the exception leaves run_test_suite and main: traceback, exit code 1.
Unwind ==
  /\ prog = "tests" /\ pc = "unwind"
  /\ \A u \in Units : fut[u].state = "finished"
  /\ pc' = "crashed" /\ exit_code' = Some(1)
  /\ UNCHANGED <<mainFrame, uproc, lock, test_files, max_workers, submitted, queue, worker, fut,
                 yielded, cur, results, completed_count, progress, spawns,
                 summary_printed>>

\* main, lines 395-399: the exit code.
TestsExitCode(res) ==
  IF Len(res.failed) + Len(res.timeout) + Len(res.error) > 0 THEN 1 ELSE 0

\* main, lines 387-399: print_summary, then sys.exit.
PrintSummaryAndExit ==
  /\ prog = "tests" /\ pc = "summary"
  /\ summary_printed' = TRUE
  /\ exit_code' = Some(TestsExitCode(results))
  /\ pc' = "exited"
  /\ UNCHANGED <<mainFrame, uproc, lock, test_files, max_workers, submitted, queue, worker, fut,
                 yielded, cur, results, completed_count, progress, spawns>>

TestsNext ==
  \/ MainPathsMissing \/ FindTestFiles \/ Submit
  \/ \E w \in Workers : WorkerStart(w)
  \/ \E w \in Workers : WorkerFinish(w)
  \/ Collect \/ LockAcquire \/ AppendResult \/ CountResult \/ LockRelease \/ Report
  \/ HandlerLockAcquire \/ HandlerAppend \/ HandlerCount \/ HandlerLockRelease
  \/ HandlerReport \/ Unwind
  \/ PrintSummaryAndExit
TestsSpec == TestsInit /\ [][TestsNext]_vars

(***************************************************************************)
(* run_perf_suite.py (prog = "perf"): load_manifest, then main.            *)
(*                                                                         *)
(* The repository's files are fixed: three regular files and a directory   *)
(* under the root.  A path is [stem, suffix]; a glob pattern's matches are *)
(* given by a table, in sorted order.                                      *)
(***************************************************************************)
MaxItems == 2       \* entries of the manifest's benchmarks array
MaxUnits == 4       \* runnable targets x modes of one run

Path(stem, suffix) == [stem |-> stem, suffix |-> suffix]
RegularFiles == {Path("dhry", ".riscv"), Path("mm", ".elf"), Path("mm", ".riscv")}
RepoDirectories == {Path("out", "")}
exists(path) == path \in RegularFiles \cup RepoDirectories
is_file(path) == path \in RegularFiles

\* Path.glob raises NotImplementedError for a pattern that is not relative.
is_absolute(pattern) == pattern = "/abs/*"

\* sorted(repo_root.glob(pattern)), for a relative pattern
glob(pattern) ==
  CASE pattern = "*.riscv" -> <<Path("dhry", ".riscv"), Path("mm", ".riscv")>>
    [] pattern = "mm.*" -> <<Path("mm", ".elf"), Path("mm", ".riscv")>>
    [] pattern = "o*" -> <<Path("out", "")>>
    [] OTHER -> <<>>

PathFields == {"dhry.riscv", "gone.riscv", "out"}
GlobFields == {"*.riscv", "mm.*", "o*", "none*"}
AbsoluteGlobFields == {"/abs/*"}
\* (repo_root / str(field)).resolve()
resolve(field) ==
  CASE field = "dhry.riscv" -> Path("dhry", ".riscv")
    [] field = "out" -> Path("out", "")
    [] OTHER -> Path(field, "")

\* A manifest entry; a field that is absent or falsy is "".
Item(is_dict, optional, path_field, glob_field) ==
  [is_dict |-> is_dict, optional |-> optional, path |-> path_field,
   glob |-> glob_field]
Items ==
  {Item(FALSE, FALSE, "", "")}
  \cup {Item(TRUE, FALSE, "", ""), Item(TRUE, FALSE, "dhry.riscv", "*.riscv")}
  \cup {Item(TRUE, o, f, "") : o \in BOOLEAN, f \in PathFields}
  \cup {Item(TRUE, o, "", g) : o \in BOOLEAN, g \in GlobFields}
  \cup {Item(TRUE, FALSE, "", g) : g \in AbsoluteGlobFields}
\* The manifest file: top says what json.loads makes of it ("invalid": it
\* raises, "object": a dict, "array": any other JSON value); for a dict,
\* is_list and items describe data.get("benchmarks", []), which is [] when
\* the field is absent.
Manifests ==
  {[top |-> "object", is_list |-> FALSE, items |-> <<>>]}
  \cup {[top |-> "object", is_list |-> TRUE, items |-> items] :
          items \in SeqsUpTo(Items, MaxItems)}
  \cup {[top |-> t, is_list |-> TRUE, items |-> <<>>] : t \in {"array", "invalid"}}

\* The entry's name field: entry idx of the manifest is named after its place.
ItemNames == <<"a", "b", "c", "d">>
\* A target's name: the entry's name, or f"{name}::{stem}" for a glob's match.
DerivedName(name, stem) == <<name, "::", stem>>

Loaded(ts) == [ok |-> TRUE, targets |-> ts, error |-> ""]
ValueError(text) == [ok |-> FALSE, targets |-> <<>>, error |-> text]
AttributeError(text) == [ok |-> FALSE, targets |-> <<>>, error |-> text]
NotImplementedError(text) == [ok |-> FALSE, targets |-> <<>>, error |-> text]

\* BothOrNeither raising only for an entry with neither field
NeitherOnly(path_field, glob_field) == path_field = "" /\ glob_field = ""

\* Line 112: bool(path_field) == bool(glob_field)
BothOrNeither(path_field, glob_field) == (path_field # "") = (glob_field # "")

\* The body of the for loop (lines 102-144) for one entry: the targets it adds.
LoadItem(item, idx) ==
  LET name == <<ItemNames[idx]>>
      matches == glob(item.glob)
      files == SelectSeq(matches, is_file)
  IN  IF ~item.is_dict THEN ValueError("not an object")
      ELSE IF BothOrNeither(item.path, item.glob)
      THEN ValueError("exactly one of path and glob")
      ELSE IF item.path # ""
      THEN Loaded(<<Target("suite", name, resolve(item.path), item.optional)>>)
      ELSE IF is_absolute(item.glob)
      THEN NotImplementedError("Non-relative patterns are unsupported")
      ELSE Loaded([i \in 1..Len(files) |->
                     Target("suite", DerivedName(name[1], files[i].stem), files[i],
                            item.optional)]
                  \o (IF matches = <<>>
                      THEN <<Target("suite", DerivedName(name[1], "(glob-empty)"),
                                    resolve(item.glob), item.optional)>>
                      ELSE <<>>))

RECURSIVE LoadItems(_, _)
LoadItems(items, idx) ==
  IF idx > Len(items) THEN Loaded(<<>>)
  ELSE LET this == LoadItem(items[idx], idx)
       IN  IF ~this.ok THEN this
           ELSE LET rest == LoadItems(items, idx + 1)
                IN  IF ~rest.ok THEN rest ELSE Loaded(this.targets \o rest.targets)

load_manifest(doc) ==
  IF doc.top = "invalid" THEN ValueError("JSONDecodeError")
  ELSE IF doc.top # "object" THEN AttributeError("object has no attribute 'get'")
  ELSE IF ~doc.is_list THEN ValueError("benchmarks must be an array")
  ELSE LoadItems(doc.items, 1)

\* fnmatch.fnmatch(t.name, args.filter) for the filters of the model
Filters == {"*", "a*"}
fnmatch(name, filter) == filter = "*" \/ name[1] = "a"
Filtered(ts, filter) ==
  IF filter # "*" THEN SelectSeq(ts, LAMBDA t : fnmatch(t.name, filter)) ELSE ts

Modes(cpu_mode) == IF cpu_mode = "both" THEN <<"in-order", "ooo">> ELSE <<cpu_mode>>

\* MissingRequired counting the optional targets too
MissingAny(ts) ==
  Len(SelectSeq(ts, LAMBDA t : ~(exists(t.path) /\ is_file(t.path))))

\* Lines 376-385: the runnable targets and the count of missing required ones.
Runnable(ts) == SelectSeq(ts, LAMBDA t : exists(t.path) /\ is_file(t.path))
MissingRequired(ts) ==
  Len(SelectSeq(ts, LAMBDA t : ~(exists(t.path) /\ is_file(t.path)) /\ ~t.optional))

\* StrictAbort tolerating one missing required target
StrictAbortAboveOne(missing, strict_missing) == missing > 1 /\ strict_missing

\* Line 387: the run is given up for missing required targets.
StrictAbort(missing, strict_missing) == missing > 0 /\ strict_missing

PerfOutcomes(timeout) ==
  {Exited(<<PASS_MARKER>>, <<>>, 0, 0),
   Exited(<<>>, <<FAIL_MARKER>>, 1, 0),
   TimedOut(<<>>, <<>>, timeout),
   SpawnFailed("PermissionError")}

PerfInit ==
  /\ prog = "perf"
  /\ ppc = "main"
  /\ pargs \in [manifest_exists : BOOLEAN, simulator_exists : BOOLEAN,
                cpu_mode : {"in-order", "ooo", "both"}, strict_missing : BOOLEAN,
                filter : Filters, timeout : {1}]
  /\ manifest = <<>> /\ targets = <<>> /\ runnable_targets = <<>>
  /\ missing_required = 0 /\ modes = <<>> /\ mi = 0 /\ ti = 0 /\ records = <<>>
  /\ pspawns = <<>> /\ psummary = FALSE /\ pexit = None
  /\ DriverIdle /\ TestsIdle /\ StatsIdle /\ FindIdle /\ CmdIdle

perfFrame == <<prog, pargs, statsVars, findVars, cmdVars, drvVars, testsVars>>

\* Lines 357-363: no manifest file or no simulator file: return 1.
PerfPathsMissing ==
  /\ prog = "perf" /\ ppc = "main"
  /\ ~pargs.manifest_exists \/ ~pargs.simulator_exists
  /\ ppc' = "exited" /\ pexit' = Some(1)
  /\ UNCHANGED <<perfFrame, manifest, targets, runnable_targets, missing_required,
                 modes, mi, ti, records, pspawns, psummary>>

\* Lines 365-374: read the manifest; a failure returns 1; else filter, modes.
\* The manifests read are those that give at most MaxUnits units to run.
LoadManifest ==
  /\ prog = "perf" /\ ppc = "main"
  /\ pargs.manifest_exists /\ pargs.simulator_exists
  /\ \E doc \in Manifests :
       LET loaded == load_manifest(doc)
           ts == Filtered(loaded.targets, pargs.filter)
       IN  /\ Len(Runnable(ts)) * Len(Modes(pargs.cpu_mode)) <= MaxUnits
           /\ manifest' = doc
           /\ IF ~loaded.ok
              THEN /\ ppc' = "exited" /\ pexit' = Some(1)
                   /\ UNCHANGED <<targets, modes>>
              ELSE /\ ppc' = "resolve"
                   /\ targets' = ts
                   /\ modes' = Modes(pargs.cpu_mode)
                   /\ UNCHANGED pexit
  /\ UNCHANGED <<perfFrame, runnable_targets, missing_required, mi, ti, records,
                 pspawns, psummary>>

\* Lines 376-393: split the targets; give up under --strict-missing or when
\* nothing is runnable.
ResolveTargets ==
  /\ prog = "perf" /\ ppc = "resolve"
  /\ runnable_targets' = Runnable(targets)
  /\ missing_required' = MissingRequired(targets)
  /\ IF StrictAbort(missing_required', pargs.strict_missing) \/ runnable_targets' = <<>>
     THEN /\ ppc' = "exited" /\ pexit' = Some(1)
          /\ UNCHANGED <<mi, ti>>
     ELSE /\ ppc' = "run" /\ mi' = 1 /\ ti' = 1
          /\ UNCHANGED pexit
  /\ UNCHANGED <<perfFrame, manifest, targets, modes, records, pspawns, psummary>>

\* Lines 396-415, one iteration: run_one on the current (mode, target); its
\* record is appended, or its exception leaves main (traceback, exit code 1).
RunUnit ==
  /\ prog = "perf" /\ ppc = "run"
  /\ pspawns' = Append(pspawns, <<modes[mi], ti>>)
  /\ \E p \in PerfOutcomes(pargs.timeout) :
       LET rec == run_one(runnable_targets[ti], modes[mi], p)
       IN  IF rec.kind = "raise"
           THEN /\ ppc' = "crashed" /\ pexit' = Some(1)
                /\ UNCHANGED <<records, mi, ti>>
           ELSE /\ records' = Append(records, rec.val)
                /\ UNCHANGED pexit
                /\ IF ti < Len(runnable_targets)
                   THEN ti' = ti + 1 /\ UNCHANGED <<mi, ppc>>
                   ELSE IF mi < Len(modes)
                   THEN mi' = mi + 1 /\ ti' = 1 /\ UNCHANGED ppc
                   ELSE ppc' = "report" /\ UNCHANGED <<mi, ti>>
  /\ UNCHANGED <<perfFrame, manifest, targets, runnable_targets, missing_required,
                 modes, psummary>>

\* Lines 428-430.
PerfExitCode(recs) ==
  IF \E i \in 1..Len(recs) : recs[i].status # "passed" THEN 1 ELSE 0

\* Lines 417-430: write the reports, print the summary, return the exit code.
ReportAndExit ==
  /\ prog = "perf" /\ ppc = "report"
  /\ psummary' = TRUE
  /\ pexit' = Some(PerfExitCode(records))
  /\ ppc' = "exited"
  /\ UNCHANGED <<perfFrame, manifest, targets, runnable_targets, missing_required,
                 modes, mi, ti, records, pspawns>>

PerfNext ==
  PerfPathsMissing \/ LoadManifest \/ ResolveTargets \/ RunUnit \/ ReportAndExit
PerfSpec == PerfInit /\ [][PerfNext]_vars

(***************************************************************************)
(* One call of parse_stats (prog = "stats") on a text drawn at the start,   *)
(* and one call of run_one on a process that wrote this text and exited.   *)
(***************************************************************************)
MaxStatsLen == 3    \* chunks of the text given to parse_stats

StatsChunks ==
  {Chunk("Instructions:", 1000, 1), Chunk("Instructions:", 0, 1),
   Chunk("Cycles:", 500, 1), Chunk("Cycles:", 0, 1),
   Chunk("IPC:", 3, 2), Chunk("IPC:", 0, 1),
   Chunk("branch_mispredicts:", 7, 1), Chunk("Branch Mispredicts:", 8, 1),
   Chunk("pipeline_stalls:", 9, 1), Chunk("Pipeline Stalls:", 0, 1),
   PASS_MARKER, FAIL_MARKER, OTHER_TEXT}

StatsInit ==
  /\ prog = "stats"
  /\ stats_in \in SeqsUpTo(StatsChunks, MaxStatsLen)
  /\ stats_out = None
  /\ proc = <<>> /\ dcfg = <<>> /\ drv = NotCalled
  /\ TestsIdle /\ PerfIdle /\ FindIdle /\ CmdIdle

CallParseStats ==
  /\ prog = "stats" /\ stats_out = None
  /\ stats_out' = Some(parse_stats(stats_in))
  /\ UNCHANGED <<prog, stats_in, findVars, cmdVars, drvVars, testsVars, perfVars>>

\* run_one on a child that wrote the text to stdout and exited with rc.
CallRunOneOnText ==
  /\ prog = "stats" /\ drv.by = "none"
  /\ \E rc \in ReturnCodes :
       drv' = [by |-> "perf"] @@
              run_one(DriverTarget, "in-order", Exited(stats_in, <<>>, rc, 0))
  /\ UNCHANGED <<prog, statsVars, findVars, cmdVars, proc, dcfg, testsVars, perfVars>>

StatsNext == CallParseStats \/ CallRunOneOnText
StatsSpec == StatsInit /\ [][StatsNext]_vars

(***************************************************************************)
(* find_test_files alone (prog = "find"): one call on what the glob lists.  *)
(***************************************************************************)
MaxGlob == 3        \* the most paths the glob lists

GlobNames == {FileNames[i] : i \in 1..3} \cup OtherNames
GlobEntries == {DirEntry(name, x) : name \in GlobNames, x \in BOOLEAN}
\* A directory holds a name once.
GlobResults ==
  {l \in SeqsUpTo(GlobEntries, MaxGlob) :
     \A i, j \in 1..Len(l) : l[i].name = l[j].name => i = j}

FindInit ==
  /\ prog = "find"
  /\ find_in \in GlobResults
  /\ find_out = None
  /\ DriverIdle /\ TestsIdle /\ PerfIdle /\ StatsIdle /\ CmdIdle

CallFindTestFiles ==
  /\ prog = "find" /\ find_out = None
  /\ find_out' = Some(find_test_files(find_in))
  /\ UNCHANGED <<prog, find_in, statsVars, cmdVars, drvVars, testsVars, perfVars>>

FindNext == CallFindTestFiles
FindSpec == FindInit /\ [][FindNext]_vars

(***************************************************************************)
(* The command line of one simulator invocation (prog = "cmd"): cmd as     *)
(* run_single_test and run_one build it from their arguments.              *)
(***************************************************************************)
\* The elements of cmd: a literal, str(path), str(n) and f"{option}{n}" of
\* an int n.
Word(text) == [word |-> text]
PathArg(path) == [path |-> path]
Str(n) == [str |-> n]
Option(option, n) == [option |-> option, value |-> n]

\* run_tests.py, lines 71-81: cmd of run_single_test
TestCmd(simulator_path, test_file, ooo) ==
  <<PathArg(simulator_path), Word("-e"), Word("-m"), Word("2164260864"),
    PathArg(test_file)>>
    \o (IF ooo THEN <<Word("--ooo")>> ELSE <<Word("--in-order")>>)

\* run_perf_suite.py, lines 158-167: cmd of run_one
PerfCmd(simulator, target, mode, memory_size, max_instructions, max_ooo_cycles) ==
  <<PathArg(simulator), Word("-e"), Word("-m"), Str(memory_size),
    Option("--max-instructions=", max_instructions),
    Option("--max-ooo-cycles=", max_ooo_cycles),
    IF mode = "ooo" THEN Word("--ooo") ELSE Word("--in-order"),
    PathArg(target.path)>>

SimulatorPath == <<"build", "risc-v-sim">>
CmdFiles == {DriverFile, <<"isa", "rv32ui-p-and">>, DriverTarget.path}

CmdInit ==
  /\ prog = "cmd"
  /\ cmd_args \in [file : CmdFiles, mode : {"in-order", "ooo"},
                    memory_size : {1048576, 16777216},
                    max_instructions : {0, 5000000}, max_ooo_cycles : {0, 50000}]
  /\ cmd = <<>>
  /\ DriverIdle /\ TestsIdle /\ PerfIdle /\ StatsIdle /\ FindIdle

\* run_single_test(test_file, timeout, ooo) up to subprocess.run
BuildTestCmd ==
  /\ prog = "cmd" /\ cmd = <<>>
  /\ cmd' = [by |-> "tests",
             argv |-> TestCmd(SimulatorPath, cmd_args.file, cmd_args.mode = "ooo")]
  /\ UNCHANGED <<prog, cmd_args, statsVars, findVars, drvVars, testsVars, perfVars>>

\* run_one(simulator, target, mode, ...) up to subprocess.run
BuildPerfCmd ==
  /\ prog = "cmd" /\ cmd = <<>>
  /\ cmd' = [by |-> "perf",
             argv |-> PerfCmd(SimulatorPath,
                              Target("suite", "bench", cmd_args.file, FALSE),
                              cmd_args.mode, cmd_args.memory_size,
                              cmd_args.max_instructions, cmd_args.max_ooo_cycles)]
  /\ UNCHANGED <<prog, cmd_args, statsVars, findVars, drvVars, testsVars, perfVars>>

CmdNext == BuildTestCmd \/ BuildPerfCmd
CmdSpec == CmdInit /\ [][CmdNext]_vars

(***************************************************************************)
(* The two runners, for what is claimed of both: a behaviour is a run of   *)
(* run_tests.py or a run of run_perf_suite.py.                             *)
(***************************************************************************)
RunnersInit == TestsInit \/ PerfInit
RunnersNext == TestsNext \/ PerfNext
RunnersSpec == RunnersInit /\ [][RunnersNext]_vars

(***************************************************************************)
(* All together.                                                           *)
(***************************************************************************)
Init == DriverInit \/ TestsInit \/ PerfInit \/ StatsInit \/ FindInit \/ CmdInit
Next == DriverNext \/ TestsNext \/ PerfNext \/ StatsNext \/ FindNext \/ CmdNext
Spec == Init /\ [][Next]_vars

(***************************************************************************)
(* Claims about a run of the test runner (checked under TestsSpec).        *)
(***************************************************************************)
BucketSizes(res) ==
  Len(res.passed) + Len(res.failed) + Len(res.timeout) + Len(res.error)
\* run_test_suite has returned its results to main.
SuiteReturned == prog = "tests" /\ (pc = "summary" \/ summary_printed)

\* The entries (bucket, position) of the aggregate that carry the file of unit u.
EntriesOf(u) ==
  UNION {{<<st, i>> : i \in {j \in 1..Len(results[st]) :
                               results[st][j].file = test_files[u]}} :
         st \in Statuses}

\* C1: once run_test_suite has finished, the sizes of the four buckets add up
\* to the number of units dispatched, one per resolved test file.
C1_BucketsSumToDispatched ==
  SuiteReturned => BucketSizes(results) = Len(test_files)

\* C2: every dispatched unit has exactly one entry in the aggregate (never
\* more than one while the run goes on, exactly one once it has finished),
\* and every entry is that of a dispatched unit.
C2_OneResultPerUnit ==
  prog = "tests" =>
    /\ \A u \in 1..submitted :
         /\ Cardinality(EntriesOf(u)) <= 1
         /\ SuiteReturned => Cardinality(EntriesOf(u)) = 1
    /\ \A st \in Statuses : \A i \in 1..Len(results[st]) :
         \E u \in 1..submitted : results[st][i].file = test_files[u]

\* C9: the process exits with 0 exactly when every dispatched unit was
\* classified passed, and with 1 otherwise.
C9_ExitZeroIffAllPassed ==
  (prog = "tests" /\ exit_code # None /\ targs.paths_exist) =>
    (exit_code = Some(0) <=> \A u \in Units : fut[u].result.status = "passed")

(***************************************************************************)
(* Claims about a run of the benchmark runner (checked under PerfSpec).    *)
(***************************************************************************)
PerfEnded == prog = "perf" /\ ppc \in {"exited", "crashed"}
HasRecord(mode, target) ==
  \E i \in 1..Len(records) :
    records[i].mode = mode /\ records[i].benchmark = target.name

\* C8: once execution has begun, a failure of one unit does not end the run:
\* when the run is over every unit (runnable target x mode) has been
\* classified.
C8_EveryUnitClassified ==
  (PerfEnded /\ pspawns # <<>>) =>
    \A m \in 1..Len(modes) : \A t \in 1..Len(runnable_targets) :
      HasRecord(modes[m], runnable_targets[t])

\* A required target of the run whose path does not exist.
MissingRequiredTarget ==
  \E i \in 1..Len(targets) : ~targets[i].optional /\ ~exists(targets[i].path)

\* C10: under --strict-missing, a run with a required target whose path does
\* not exist starts no simulator and produces no record, and exits with 1.
C10_StrictMissingAborts ==
  (prog = "perf" /\ pargs.strict_missing /\ MissingRequiredTarget) =>
    /\ pspawns = <<>> /\ records = <<>>
    /\ ppc \in {"resolve", "exited"}
    /\ ppc = "exited" => (pexit = Some(1) /\ ~psummary)

\* Such a run has ended with 1 although one of its targets was runnable.
C10_Witness ==
  /\ prog = "perf" /\ pargs.strict_missing /\ MissingRequiredTarget
  /\ Runnable(targets) # <<>>
  /\ ppc = "exited" /\ pexit = Some(1)

\* The manifest was read and load_manifest returned its targets.
ManifestLoaded == prog = "perf" /\ ppc \in {"resolve", "run", "report"}
\* The targets of the run that come from entry idx of the manifest.
TargetsOfItem(idx) == SelectSeq(targets, LAMBDA t : t.name[1] = ItemNames[idx])
\* Entry idx is a glob entry whose pattern matches no regular file.
GlobWithoutFiles(idx) ==
  /\ manifest.items[idx].glob # "" /\ manifest.items[idx].path = ""
  /\ SelectSeq(glob(manifest.items[idx].glob), is_file) = <<>>

\* C11: a glob entry that matches zero files gives exactly one target, named
\* <base-name>::(glob-empty), with the entry's optional flag and a path that
\* does not exist (so the entry is reported missing, not dropped).
C11_EmptyGlobPlaceholder ==
  (ManifestLoaded /\ pargs.filter = "*") =>
    \A idx \in 1..Len(manifest.items) :
      GlobWithoutFiles(idx) =>
        /\ Len(TargetsOfItem(idx)) = 1
        /\ TargetsOfItem(idx)[1].name = DerivedName(ItemNames[idx], "(glob-empty)")
        /\ TargetsOfItem(idx)[1].optional = manifest.items[idx].optional
        /\ ~exists(TargetsOfItem(idx)[1].path)

\* main has read the manifest file.
ManifestRead == prog = "perf" /\ manifest # <<>>
\* load_manifest raised: main returned at line 369, before modes was set.
LoadFailed == ManifestRead /\ modes = <<>>
\* One of the three defects of structure.
Defect(doc) ==
  \/ ~doc.is_list
  \/ \E i \in 1..Len(doc.items) :
       \/ ~doc.items[i].is_dict
       \/ (doc.items[i].path # "") = (doc.items[i].glob # "")
\* The run was given up with exit code 1 and nothing was executed.
AbortedBeforeExecution ==
  /\ ppc = "exited" /\ pexit = Some(1)
  /\ pspawns = <<>> /\ records = <<>> /\ ~psummary
\* The manifest is a JSON object whose glob patterns are relative.
WellFormed(doc) ==
  /\ doc.top = "object"
  /\ \A i \in 1..Len(doc.items) : ~is_absolute(doc.items[i].glob)

\* C12 as stated: loading fails, and the run ends with exit code 1 before any
\* execution, when benchmarks is no array, an entry is no object or an entry
\* has both or neither of path and glob; any other manifest loads.
C12_FailsExactlyOnDefect ==
  ManifestRead =>
    /\ Defect(manifest) => (LoadFailed /\ AbortedBeforeExecution)
    /\ ~Defect(manifest) => ~LoadFailed

\* C12 amended: as above, and a manifest without these defects loads when it
\* is a JSON object whose glob patterns are relative to the root.
C12_FailsOnDefect ==
  ManifestRead =>
    /\ Defect(manifest) => (LoadFailed /\ AbortedBeforeExecution)
    /\ (WellFormed(manifest) /\ ~Defect(manifest)) => ~LoadFailed

\* A manifest whose second entry has both path and glob ended the run.
C12_Witness ==
  /\ ManifestRead /\ Len(manifest.items) = 2
  /\ manifest.items[1].path # "" /\ manifest.items[1].glob = ""
  /\ manifest.items[2].path # "" /\ manifest.items[2].glob # ""
  /\ LoadFailed /\ AbortedBeforeExecution

\* C13: when a run that executed units is over, it has produced one record
\* per (selected mode, runnable target): their number is the product, and
\* with mode both every runnable target has one in-order and one ooo record.
C13_RecordsAreTargetsTimesModes ==
  (PerfEnded /\ pspawns # <<>>) =>
    /\ Len(records) = Len(runnable_targets) * Len(modes)
    /\ \A m \in 1..Len(modes) : \A t \in 1..Len(runnable_targets) :
         LET rec == records[(m - 1) * Len(runnable_targets) + t]
         IN  /\ rec.mode = modes[m]
             /\ rec.benchmark = runnable_targets[t].name
             /\ rec.file = runnable_targets[t].path

(***************************************************************************)
(* Claims about parse_stats (checked under StatsSpec).                     *)
(***************************************************************************)
Parsed == prog = "stats" /\ stats_out # None
\* The places of the text where a counter with one of the labels is printed.
Places(labels) == {i \in 1..Len(stats_in) : stats_in[i].k \in labels}
LastPlace(labels) == CHOOSE i \in Places(labels) : \A j \in Places(labels) : j <= i
\* The fraction f is the quotient a / b.
IsQuotient(f, a, b) == f.n * b = f.d * a /\ f.d > 0

\* C14: without an IPC value in the text, and with an instruction count and a
\* cycle count above 0, the IPC is instructions / cycles (2.0 for 1000 and
\* 500); with an IPC value in the text, the IPC is that value.
C14_IpcDerivedOrExplicit ==
  Parsed =>
    LET st == stats_out[1]
    IN  /\ (/\ Places(RE_IPC) = {}
            /\ Places(RE_INSTRUCTIONS) # {} /\ Places(RE_CYCLES) # {}
            /\ stats_in[LastPlace(RE_CYCLES)].v > 0)
           => /\ st.ipc # None /\ st.instructions # None /\ st.cycles # None
              /\ IsQuotient(st.ipc[1], st.instructions[1], st.cycles[1])
        /\ stats_in = <<Chunk("Instructions:", 1000, 1), Chunk("Cycles:", 500, 1)>>
           => st.ipc = Some([n |-> 2, d |-> 1])
        /\ Places(RE_IPC) # {}
           => /\ st.ipc # None
              /\ IsQuotient(st.ipc[1], stats_in[LastPlace(RE_IPC)].v,
                            stats_in[LastPlace(RE_IPC)].d)

\* parse_stats derived 2.0 from 1000 instructions and 500 cycles.
C14_Witness ==
  /\ Parsed
  /\ stats_in = <<Chunk("Instructions:", 1000, 1), Chunk("Cycles:", 500, 1)>>
  /\ stats_out[1].ipc = Some([n |-> 2, d |-> 1])

\* The integer counters of a stats record, with the labels of each.
IntCounters ==
  {<<"instructions", RE_INSTRUCTIONS>>, <<"cycles", RE_CYCLES>>,
   <<"branch_mispredicts", RE_BRANCH_MISPREDICTS>>,
   <<"pipeline_stalls", RE_PIPELINE_STALLS>>}
\* A counter with one of the labels is printed with the value 0.
LiteralZero(labels) == \E i \in Places(labels) : stats_in[i].v = 0

\* C15: a counter whose label is not in the text is absent, not 0; the IPC is
\* absent when the text has no IPC value and the cycle count is absent or 0;
\* a counter that is 0 was printed as 0 (for a derived IPC: the instruction
\* count was).
C15_AbsentNeverZero ==
  Parsed =>
    LET st == stats_out[1]
    IN  /\ \A c \in IntCounters :
             /\ Places(c[2]) = {} => st[c[1]] = None
             /\ st[c[1]] = Some(0) => LiteralZero(c[2])
        /\ (Places(RE_IPC) = {} /\ (st.cycles = None \/ st.cycles = Some(0)))
           => st.ipc = None
        /\ (st.ipc # None /\ st.ipc[1].n = 0)
           => LiteralZero(RE_IPC) \/ LiteralZero(RE_INSTRUCTIONS)

\* A text with 1000 instructions and 0 cycles gave no IPC and no stall count.
C15_Witness ==
  /\ Parsed
  /\ stats_in = <<Chunk("Instructions:", 1000, 1), Chunk("Cycles:", 0, 1)>>
  /\ stats_out[1].cycles = Some(0)
  /\ stats_out[1].ipc = None /\ stats_out[1].pipeline_stalls = None

\* C16: a run that began executing units prints its summary: when such a run
\* is over, whatever its units produced, the summary has been printed.
C16_SummaryPrinted ==
  (PerfEnded /\ pspawns # <<>>) => psummary

\* C17: the targets that come from one glob entry have pairwise distinct
\* names, whatever files the pattern matched.
C17_DerivedNamesDistinct ==
  ManifestLoaded =>
    \A idx \in 1..Len(manifest.items) :
      manifest.items[idx].glob # "" =>
        \A i, j \in 1..Len(TargetsOfItem(idx)) :
          i # j => TargetsOfItem(idx)[i].name # TargetsOfItem(idx)[j].name

(***************************************************************************)
(* More claims about one driver call (checked under DriverSpec).           *)
(***************************************************************************)
\* C18: in the test runner, a completed run with return code 0 whose output
\* has neither the PASS nor the FAIL marker is classified passed exactly when
\* the implicit-pass fallback is enabled and the output contains both the
\* "Program finished" and the "Program State: halted" marker; otherwise it is
\* classified error and the captured output is kept in the result.
C18_ImplicitPassFallback ==
  (/\ Completed /\ drv.by = "tests"
   /\ ~Contains(CapturedOutput(proc), PASS_MARKER)
   /\ ~Contains(CapturedOutput(proc), FAIL_MARKER)
   /\ proc.returncode = 0) =>
    IF /\ dcfg.allow_implicit_pass
       /\ Contains(CapturedOutput(proc), PROGRAM_FINISHED_MARKER)
       /\ Contains(CapturedOutput(proc), PROGRAM_HALTED_MARKER)
    THEN Classified("passed")
    ELSE /\ Classified("error")
         /\ drv.val.output.stdout = proc.stdout
         /\ drv.val.output.stderr = proc.stderr

\* The counters of st are those of the last match of each label in the text.
LastMatches(st) ==
  /\ \A c \in IntCounters :
       Cardinality(Places(c[2])) > 1 => st[c[1]] = Some(stats_in[LastPlace(c[2])].v)
  /\ Cardinality(Places(RE_IPC)) > 1 =>
       /\ st.ipc # None
       /\ IsQuotient(st.ipc[1], stats_in[LastPlace(RE_IPC)].v,
                     stats_in[LastPlace(RE_IPC)].d)

\* C19: a counter whose label matches more than once has the value of the
\* last match in text order; this holds for each of the five counters, in
\* what parse_stats returns and in the record of a completed run, whatever
\* the status of the run.
C19_LastMatchWins ==
  prog = "stats" =>
    /\ Parsed => LastMatches(stats_out[1])
    /\ drv.by = "perf" => (drv.kind = "return" /\ LastMatches(drv.val))

\* A failed run that printed 1000 and then 0 instructions is recorded with 0.
C19_Witness ==
  /\ prog = "stats" /\ drv.by = "perf"
  /\ stats_in = <<Chunk("Instructions:", 1000, 1), FAIL_MARKER,
                  Chunk("Instructions:", 0, 1)>>
  /\ drv.val.status = "failed" /\ drv.val.instructions = Some(0)

(***************************************************************************)
(* More claims about a run of the benchmark runner (checked under          *)
(* PerfSpec).                                                              *)
(***************************************************************************)
\* main is past the split of the targets (lines 376-393).
Resolved == prog = "perf" /\ modes # <<>> /\ ppc # "resolve"
\* main returned 1 at line 389 or 393.
AbortedAtResolve == Resolved /\ ppc = "exited" /\ pspawns = <<>> /\ ~psummary
\* The targets of the run whose path does not exist, by their optional flag.
MissingTargets(optional) ==
  {i \in 1..Len(targets) : ~exists(targets[i].path) /\ targets[i].optional = optional}
RequiredTargets == {i \in 1..Len(targets) : ~targets[i].optional}
\* No simulator was started on a path that does not exist, no such target is
\* runnable, and only required targets count as missing.
MissingNeverRun ==
  /\ \A k \in 1..Len(pspawns) : exists(runnable_targets[pspawns[k][2]].path)
  /\ \A i \in 1..Len(runnable_targets) : exists(runnable_targets[i].path)
  /\ Resolved =>
       /\ Cardinality(MissingTargets(FALSE)) <= missing_required
       /\ missing_required <= Cardinality(RequiredTargets)
       /\ (MissingTargets(FALSE) = {} /\ missing_required > 0) =>
            \E i \in RequiredTargets : ~is_file(targets[i].path)

C21_CompletedCountExact ==
  prog = "tests" =>
    /\ lock = "none" => completed_count = BucketSizes(results)
    /\ \A i, j \in 1..Len(progress) : i < j => progress[i] < progress[j]
    /\ \A i \in 1..Len(progress) : progress[i] \in 1..completed_count
    /\ SuiteReturned => completed_count = Len(test_files)

\* The units whose simulator subprocess is running.
RunningUnits == {u \in Units : fut[u].state = "running"}

\* C22: never more simulator subprocesses run than the pool has workers, a
\* worker runs one invocation at a time (every running unit is held by
\* exactly one worker), and without a positive --workers value the pool has
\* min(number of units, number of CPUs) workers, never more than units.
C22_PoolBounded ==
  (prog = "tests" /\ test_files # <<>>) =>
    /\ Cardinality(RunningUnits) <= max_workers
    /\ \A u \in RunningUnits : Cardinality({w \in Workers : worker[w] = u}) = 1
    /\ \A w \in Workers : worker[w] # 0 => worker[w] \in RunningUnits
    /\ targs.workers > 0 => max_workers = targs.workers
    /\ targs.workers <= 0 =>
         /\ max_workers <= Len(test_files)
         /\ targs.cpu_count > 0 => max_workers = Min(Len(test_files), targs.cpu_count)

\* An automatically sized pool of one worker runs one of two units, the other
\* one waiting in the queue.
C22_Witness ==
  /\ prog = "tests" /\ targs.workers = 0 /\ targs.cpu_count = 1
  /\ Len(test_files) = 2 /\ max_workers = 1
  /\ Cardinality(RunningUnits) = 1 /\ queue # <<>>

\* An update of the aggregate is under way: a result is appended and the
\* count is not incremented yet.
PartialUpdate == completed_count # BucketSizes(results)

\* C23: every modification of the aggregate and of the completed-count is
\* made while the lock is held, by the thread that holds it, and the lock is
\* not released between an append and its increment: one holding of the lock
\* covers exactly one append followed by one increment, so no second append
\* begins while an update is partial.
C23_UpdatesUnderLock ==
  /\ [](prog = "tests" => (PartialUpdate => lock = "main"))
  /\ [][prog = "tests" =>
          /\ (results' # results \/ completed_count' # completed_count) =>
                (lock = "main" /\ lock' = "main")
          /\ results' # results =>
                (~PartialUpdate /\ BucketSizes(results') = BucketSizes(results) + 1)
          /\ completed_count' # completed_count =>
                (PartialUpdate /\ completed_count' = BucketSizes(results))]_vars

\* C23 witness: two units have completed, the result of the first is fully
\* aggregated and that of the second is appended under the lock with its
\* increment still to come.
C23_Witness ==
  /\ prog = "tests" /\ lock = "main" /\ PartialUpdate
  /\ completed_count = 1 /\ BucketSizes(results) = 2
  /\ \A u \in 1..2 : u \in Units /\ fut[u].state = "finished"

\* The units whose simulator invocation ran into the timeout.
TimedOutUnits == {u \in Units : uproc[u] # None /\ uproc[u][1].kind = "timeout"}

\* The classification unit u gets from what its own subprocess did.
OwnResult(u) ==
  run_single_test(test_files[u], targs.timeout, targs.allow_implicit_pass,
                  uproc[u][1])

\* The result of unit u is appended and counted.
Aggregated(u) == u \in yielded /\ (cur # u \/ pc \notin {"append", "locked"})

\* C24: the end of a subprocess, by timeout or otherwise, ends that one
\* invocation only: the step changes the future and the worker of that unit
\* and nothing of any other unit. Whether or not some unit timed out, every
\* unit is started, has ended when the suite returns, gets the result that
\* run_single_test computes from its own subprocess alone, and is aggregated
\* in the bucket of that status.
C24_TimeoutCancelsOnlyItself ==
  /\ [](prog = "tests" =>
          /\ \A u \in Units :
               /\ fut[u].state = "finished" <=> uproc[u] # None
               /\ fut[u].state = "finished" =>
                    /\ fut[u].result = OwnResult(u)
                    /\ spawns[u] = 1
                    /\ u \in TimedOutUnits <=> fut[u].result.status = "timeout"
               /\ Aggregated(u) =>
                    \E i \in 1..Len(results[OwnResult(u).status]) :
                      results[OwnResult(u).status][i].file = test_files[u]
          /\ (SuiteReturned \/ pc = "crashed") =>
               \A u \in Units : fut[u].state = "finished")
  /\ [][prog = "tests" =>
          \A u \in Units :
            (uproc[u] = None /\ uproc'[u] # None) =>
              /\ queue' = queue
              /\ \A v \in Units \ {u} : fut'[v] = fut[v] /\ uproc'[v] = uproc[v]
              /\ \A w \in Workers : worker[w] # u => worker'[w] = worker[w]]_vars

\* C24 witness: with one worker, the first unit timed out and the second,
\* dispatched after it, ran, passed and is aggregated as passed.
C24_Witness ==
  /\ prog = "tests" /\ max_workers = 1 /\ Len(test_files) = 2
  /\ 1 \in TimedOutUnits /\ fut[1].result.status = "timeout"
  /\ fut[2].state = "finished" /\ uproc[2][1].kind = "exit"
  /\ fut[2].result.status = "passed"
  /\ Aggregated(1) /\ Aggregated(2)
  /\ Len(results.timeout) = 1 /\ Len(results.passed) = 1

\* Bucket b of the aggregate after a step begins with what it held before.
BucketExtended(b) ==
  /\ Len(results'[b]) >= Len(results[b])
  /\ SubSeq(results'[b], 1, Len(results[b])) = results[b]

\* C25: the future of a unit goes from pending (dispatched) to running to
\* finished and no other way, a finished future carries one of the four
\* statuses and never changes again, and the buckets of the aggregate are
\* append-only: a step leaves every entry in its bucket, at its position and
\* unchanged, and adds at most one entry, at the end of one bucket, for the
\* unit whose completion is being aggregated.
C25_UnitLifecycle ==
  /\ [](prog = "tests" =>
          \A u \in Units :
            /\ fut[u].state \in {"pending", "running", "finished"}
            /\ fut[u].state = "finished" => fut[u].result.status \in Statuses)
  /\ [][prog = "tests" =>
          /\ \A u \in Units :
               /\ fut[u].state = "pending" => fut'[u].state \in {"pending", "running"}
               /\ fut[u].state = "running" => fut'[u].state \in {"running", "finished"}
               /\ fut[u].state = "finished" => fut'[u] = fut[u]
          /\ \A b \in Statuses : BucketExtended(b)
          /\ results' # results =>
               \E b \in Statuses :
                 /\ Len(results'[b]) = Len(results[b]) + 1
                 /\ results'[b][Len(results'[b])].file = test_files[cur]
                 /\ \A c \in Statuses \ {b} : results'[c] = results[c]]_vars

\* C25 witness: two units passed and the second one completed first, so the
\* bucket holds them in the order of completion, not of dispatch.
C25_Witness ==
  /\ prog = "tests" /\ Len(test_files) = 2
  /\ Len(results.passed) = 2
  /\ results.passed[1].file = test_files[2]
  /\ results.passed[2].file = test_files[1]

(***************************************************************************)
(* Claims about find_test_files (checked under FindSpec).                  *)
(***************************************************************************)
Found == prog = "find" /\ find_out # None

\* The entries of a listing, whatever their order.
Contents(listing) == {listing[i] : i \in 1..Len(listing)}

\* The name has the reserved suffix: its last five characters are ".dump".
HasDumpSuffix(name) ==
  /\ Len(name) >= 5
  /\ <<name[Len(name) - 4], name[Len(name) - 3], name[Len(name) - 2],
       name[Len(name) - 1], name[Len(name)]>> = <<".", "d", "u", "m", "p">>

\* The first place where two different names differ decides, and a proper
\* prefix comes first.
NameBefore(a, b) ==
  \/ /\ Len(a) < Len(b)
     /\ \A i \in 1..Len(a) : a[i] = b[i]
  \/ \E k \in 1..Min(Len(a), Len(b)) :
       /\ \A i \in 1..(k - 1) : a[i] = b[i]
       /\ Ord(a[k]) < Ord(b[k])

C27_NeverRetries ==
  /\ prog = "tests" =>
       \A u \in Units :
         /\ spawns[u] <= 1
         /\ spawns[u] = 1 <=> fut[u].state # "pending"
  /\ prog = "perf" =>
       \A i, j \in 1..Len(pspawns) : pspawns[i] = pspawns[j] => i = j

\* C27 witness: the run of the test runner is over, a unit ended in failed,
\* one in timeout or error, and the simulator was started once for each.
C27_Witness ==
  /\ prog = "tests" /\ pc = "exited" /\ Len(test_files) = 2
  /\ fut[1].state = "finished" /\ fut[1].result.status = "failed"
  /\ fut[2].state = "finished" /\ fut[2].result.status \in {"timeout", "error"}
  /\ spawns = <<1, 1>>

(***************************************************************************)
(* Claims about the command line (checked under CmdSpec).                  *)
(***************************************************************************)
CmdBuilt == prog = "cmd" /\ cmd # <<>>

ModeFlags == {[word |-> "--in-order"], [word |-> "--ooo"]}
ModeFlagOf(mode) == IF mode = "ooo" THEN [word |-> "--ooo"] ELSE [word |-> "--in-order"]

\* The byte count the invocation is to be given after -m.
MemoryBytes ==
  IF cmd.by = "tests" THEN [word |-> "2164260864"]
  ELSE [str |-> cmd_args.memory_size]

\* C28: the argument vector of an invocation contains -e, contains -m
\* immediately followed by the byte count, contains exactly one of
\* --in-order and --ooo, the one of the unit's mode, and ends with the path
\* of the target file.
C28_ArgvShape ==
  CmdBuilt =>
    LET argv == cmd.argv
        at(x) == {i \in 1..Len(argv) : argv[i] = x}
    IN  /\ at([word |-> "-e"]) # {}
        /\ \E i \in at([word |-> "-m"]) :
             i < Len(argv) /\ argv[i + 1] = MemoryBytes
        /\ Cardinality({i \in 1..Len(argv) : argv[i] \in ModeFlags}) = 1
        /\ at(ModeFlagOf(cmd_args.mode)) # {}
        /\ argv[Len(argv)] = [path |-> cmd_args.file]

\* C30: in the benchmark runner a completed run is passed exactly when its
\* return code is 0, its output (stdout and stderr) has the PASS marker and
\* has no FAIL marker, and failed in every other case; no record the runner
\* returns has status error.
C30_PerfPassedIff ==
  drv.by = "perf" =>
    /\ Completed =>
         /\ drv.kind = "return"
         /\ drv.val.status =
              IF /\ proc.returncode = 0
                 /\ Contains(CapturedOutput(proc), PASS_MARKER)
                 /\ ~Contains(CapturedOutput(proc), FAIL_MARKER)
              THEN "passed" ELSE "failed"
    /\ drv.kind = "return" => drv.val.status \in {"passed", "failed", "timeout"}

\* C30 witness: a run that exits with 0 and prints "Program finished", but
\* no PASS marker, is failed.
C30_Witness ==
  /\ drv.by = "perf" /\ Completed /\ proc.returncode = 0
  /\ proc.stdout # <<>>
  /\ Contains(proc.stdout, PROGRAM_FINISHED_MARKER)
  /\ ~Contains(CapturedOutput(proc), PASS_MARKER)
  /\ ~Contains(CapturedOutput(proc), FAIL_MARKER)
  /\ drv.val.status = "failed"

(***************************************************************************)
(* Claims about the stream that is classified (checked under DriverSpec).  *)
(***************************************************************************)
\* The same process with what it wrote to stderr written to stdout instead,
\* after what it wrote to stdout.
AllOnStdout(p) == [p EXCEPT !.stdout = p.stdout \o p.stderr, !.stderr = <<>>]

\* The status the runner of this call gives process p.
StatusFor(p) ==
  IF drv.by = "tests"
  THEN run_single_test(DriverFile, dcfg.timeout, dcfg.allow_implicit_pass, p).status
  ELSE run_one(DriverTarget, dcfg.mode, p).val.status

\* C29: a completed run is classified on stdout followed by stderr: its
\* status is the one the same run gets when everything it wrote to stderr is
\* written to stdout instead, so a marker that is only on stderr counts as
\* the same marker on stdout does.
C29_StderrMarkersCount ==
  Completed => drv.val.status = StatusFor(AllOnStdout(proc))

(***************************************************************************)
(* The two aggregation paths of run_test_suite (checked under TestsSpec).  *)
(***************************************************************************)
\* The entries of unit u made by the normal path (lines 164-169) and by the
\* except branch (lines 186-191).
NormalEntriesOf(u) ==
  {e \in EntriesOf(u) : results[e[1]][e[2]].output # ThreadException}
HandlerEntriesOf(u) ==
  {e \in EntriesOf(u) :
     /\ e[1] = "error"
     /\ results[e[1]][e[2]].output = ThreadException
     /\ results[e[1]][e[2]].returncode = -1}

\* C31: for each completed unit one of the two aggregation paths runs and
\* not the other: no unit has both an entry made by the normal path and an
\* entry made by the except branch, no unit has more than one entry, and
\* outside an update under the lock the completed-count is the number of
\* units aggregated, also when the progress report after the normal append
\* raises.
C31_OneAggregationPath ==
  prog = "tests" =>
    /\ \A u \in Units :
         /\ ~(NormalEntriesOf(u) # {} /\ HandlerEntriesOf(u) # {})
         /\ Cardinality(EntriesOf(u)) <= 1
    /\ lock = "none" =>
         completed_count = Cardinality({u \in Units : Aggregated(u)})

====
